---- MODULE Spec2Model ----
(***************************************************************************)
(* The eight-seat Blackjack round of BlackjackGame.js: the React state of  *)
(* the component, one action per handler, and the interval that deals.     *)
(* A handler reads the state of the render that created it and queues its  *)
(* setState calls; the queue is applied when the handler returns, so one   *)
(* handler call is one step.                                               *)
(*                                                                         *)
(* TableLayout.js holds, after the table itself, the earlier BlackjackGame *)
(* that plays by itself (random bets, one deck, a second interval that     *)
(* hits or stands for the seats).  It is modelled over the same state,     *)
(* with its two extra useState cells and the renders its intervals hold.   *)
(***************************************************************************)
EXTENDS Integers, Sequences, FiniteSets, TLC

VARIABLES
    phase,               \* 1 = betting, 2 = dealing, 3 = hit/stand
    players,             \* array of 8 players, indexed 0..7
    dealer,
    deck,                \* the shoe; its last element is the top card
    bettingIndex,
    dealIndex,
    isDealing,
    currentPlayerIndex,
    isHitStandActive,    \* self-playing game only
    hitStandIndex,       \* self-playing game only
    hitStandClosure,     \* what the hit/stand interval's callback closes over
    dealClosure,         \* what the self-playing game's deal interval closes over
    call,                \* the last call of a pure function and its result
    lastOp,              \* history: the last handler call and its arguments
    thrown,              \* history: what the last call threw, "none" if nothing
    doubled,             \* history: the seats that have doubled this round
    betLog,              \* history: the bets submitted this round, in order
    unusual,             \* history: how many calls of this round were unusual
    unmounted            \* React has removed the component after a render error

progVars == <<phase, players, dealer, deck, bettingIndex, dealIndex,
              isDealing, currentPlayerIndex>>
\* the state BlackjackGame.js does not have
autoVars == <<isHitStandActive, hitStandIndex, hitStandClosure, dealClosure>>
vars == <<phase, players, dealer, deck, bettingIndex, dealIndex,
          isDealing, currentPlayerIndex, isHitStandActive, hitStandIndex,
          hitStandClosure, dealClosure, call, lastOp, thrown, doubled, betLog,
          unusual, unmounted>>

----------------------------------------------------------------------------
(* Bounds of the model *)

\* shuffles are drawn from the random sources 0..MaxSeed
MaxSeed == 1
\* calls per round that are addressed to a seat off the cursor or, for a bet,
\* carry another amount than the usual one
MaxUnusual == 1
\* hit/stand/double calls per round
MaxActs == 3
\* cards in a hand handed to calculateScore on its own
MaxHand == 4
\* decks in a shoe built on its own
MaxDecks == 6
\* entries in the actions of the seats of the self-playing game
MaxTicks == 2
\* of these, entries made outside phase 3
MaxStale == 1
\* restarts of the self-playing game
MaxRestarts == 1
\* "hit" outcomes of Math.random() in one self-playing round
MaxAutoHits == 2

(* Program constants *)

NumSeats == 8
DeckCount == 6
MinBet == 5
BustLimit == 21
DealerSlot == 8

Seats == 0 .. (NumSeats - 1)
Seeds == 0 .. MaxSeed

----------------------------------------------------------------------------
(* Cards, deck and shoe *)

Suits == <<"spades", "hearts", "diamonds", "clubs">>
Ranks == <<"A", "2", "3", "4", "5", "6", "7", "8", "9", "10", "J", "Q", "K">>

\* what Array.prototype.pop returns on an empty array
Undefined == [rank |-> "undefined", suit |-> "undefined"]

\* suits outer loop, ranks inner loop, each card pushed at the end
GenerateDeck ==
    [k \in 1 .. (Len(Suits) * Len(Ranks)) |->
        [rank |-> Ranks[((k - 1) % Len(Ranks)) + 1],
         suit |-> Suits[((k - 1) \div Len(Ranks)) + 1]]]

RECURSIVE GenerateShoe(_)
GenerateShoe(deckCount) ==
    IF deckCount <= 0 THEN << >>
    ELSE GenerateShoe(deckCount - 1) \o GenerateDeck

\* Math.floor(Math.random() * (i + 1)) for the random source `seed`: a value
\* in 0..i.  Source 0 always draws i (every card stays in place); source s > 0
\* draws i modulo 20 s (the first cards of the shoe come out on top).
RandomIndex(seed, i) == i % (IF seed = 0 THEN i + 1 ELSE 20 * seed)

\* variant: deck[i] = deck[j] only, the card that was at i is lost
SwapOverwrites(d, i, j) == [d EXCEPT ![i + 1] = d[j + 1]]

\* one exchange [deck[i], deck[j]] = [deck[j], deck[i]], 0-based indices
Swap(d, i, j) == [d EXCEPT ![i + 1] = d[j + 1], ![j + 1] = d[i + 1]]

\* the iterations i = hi, hi-1, ..., lo of the loop, applied to d in that
\* order (split in halves to keep the evaluation shallow)
RECURSIVE ShuffleSteps(_, _, _, _)
ShuffleSteps(d, hi, lo, seed) ==
    IF hi < lo THEN d
    ELSE IF hi = lo THEN Swap(d, hi, RandomIndex(seed, hi))
    ELSE LET mid == (hi + lo) \div 2
             upper == ShuffleSteps(d, hi, mid + 1, seed)
         IN  \* an exchange keeps the length; asking for it has the upper
             \* half computed before the lower half starts
             IF Len(upper) = Len(d) THEN ShuffleSteps(upper, mid, lo, seed)
             ELSE upper

\* Fisher-Yates, i from length-1 down to 1
ShuffleDeck(d, seed) == ShuffleSteps(d, Len(d) - 1, 1, seed)

\* the shoes goToPhase2 can produce, one per random source
FreshShoes == [seed \in Seeds |-> ShuffleDeck(GenerateShoe(DeckCount), seed)]

----------------------------------------------------------------------------
(* Scoring *)

\* a string as the sequence of its characters
Digits == <<"0", "1", "2", "3", "4", "5", "6", "7", "8", "9">>
IsDigit(ch) == \E d \in 1 .. Len(Digits) : Digits[d] = ch
DigitValue(ch) == (CHOOSE d \in 1 .. Len(Digits) : Digits[d] = ch) - 1
\* the characters parseInt skips at the start (StrWhiteSpaceChar: WhiteSpace
\* and LineTerminator of ECMAScript); a character with no escape here is
\* written by its code point
WhiteSpace ==
    {"\t", "U+000B", "\f", " ", "U+00A0", "U+FEFF",
     "\n", "\r", "U+2028", "U+2029",
     "U+1680", "U+2000", "U+2001", "U+2002", "U+2003", "U+2004", "U+2005",
     "U+2006", "U+2007", "U+2008", "U+2009", "U+200A", "U+202F", "U+205F",
     "U+3000"}

\* the least index of a set of indices
First(S) == CHOOSE i \in S : \A j \in S : i <= j

SkipWhiteSpace(s) ==
    LET rest == {i \in 1 .. Len(s) : s[i] \notin WhiteSpace} IN
    IF rest = {} THEN << >> ELSE SubSeq(s, First(rest), Len(s))

\* the longest run of digits at the start of s
DigitPrefix(s) ==
    LET stop == {i \in 1 .. Len(s) : ~IsDigit(s[i])} IN
    IF stop = {} THEN s ELSE SubSeq(s, 1, First(stop) - 1)

\* a Number of the program that is an integer or an infinity, written by its
\* sign and the decimal numeral of its magnitude: the digit values, most
\* significant first, without leading zeros; a bet is such a Number
RECURSIVE NumeralOf(_)
NumeralOf(n) == IF n < 10 THEN <<n>> ELSE Append(NumeralOf(n \div 10), n % 10)

Num(n) ==
    [neg |-> n < 0, inf |-> FALSE, digits |-> NumeralOf(IF n < 0 THEN -n ELSE n)]

IsZero(x) == ~x.inf /\ x.digits = <<0>>
\* x > 0
IsPositive(x) == ~x.neg /\ ~IsZero(x)

\* the integer a short numeral denotes
RECURSIVE NumeralValue(_, _)
NumeralValue(ns, acc) ==
    IF ns = << >> THEN acc ELSE NumeralValue(Tail(ns), 10 * acc + Head(ns))

\* a Number small enough to be added to a score
IntOf(x) == (IF x.neg THEN -1 ELSE 1) * NumeralValue(x.digits, 0)

\* the numeral without its leading zeros
StripZeros(ns) ==
    LET nz == {i \in 1 .. Len(ns) : ns[i] # 0} IN
    IF nz = {} THEN <<0>>
    ELSE SubSeq(ns, First(nz), Len(ns))

\* a < b for two numerals
Less(a, b) ==
    \/ Len(a) < Len(b)
    \/ /\ Len(a) = Len(b)
       /\ \E i \in 1 .. Len(a) :
             a[i] < b[i] /\ \A j \in 1 .. i - 1 : a[j] = b[j]

\* floor(n / 2): each digit with the parity of the digit before it
Halved(ns) ==
    LET q == [i \in 1 .. Len(ns) |->
                 ((IF i > 1 THEN ns[i - 1] % 2 ELSE 0) * 10 + ns[i]) \div 2]
    IN  SubSeq(q, IF q[1] = 0 /\ Len(ns) > 1 THEN 2 ELSE 1, Len(ns))

\* 2 n: each digit with the carry of the digit after it
Doubled(ns) ==
    LET d == [i \in 1 .. Len(ns) |->
                 ((2 * ns[i]) % 10)
                     + (IF i < Len(ns) /\ ns[i + 1] >= 5 THEN 1 ELSE 0)]
    IN  (IF ns[1] >= 5 THEN <<1>> ELSE << >>) \o SubSeq(d, 1, Len(ns))

\* n + 1
Succ(ns) ==
    LET carried(i) == \A j \in i + 1 .. Len(ns) : ns[j] = 9
        s == [i \in 1 .. Len(ns) |->
                 IF carried(i) THEN (ns[i] + 1) % 10 ELSE ns[i]]
    IN  (IF \A j \in 1 .. Len(ns) : ns[j] = 9 THEN <<1>> ELSE << >>)
            \o SubSeq(s, 1, Len(ns))

\* n 2^k (split in halves to keep the evaluation shallow)
RECURSIVE DoubleTimes(_, _)
DoubleTimes(ns, k) ==
    IF k = 0 THEN ns
    ELSE IF k = 1 THEN Doubled(ns)
    ELSE LET first == DoubleTimes(ns, k \div 2) IN
         \* asking for its length has the first half computed before the
         \* second half starts
         IF Len(first) > 0 THEN DoubleTimes(first, k - k \div 2) ELSE first

\* a right shift by one bit that remembers whether a 1 was shifted out
HalveOnce(st) ==
    [num |-> Halved(st.num),
     sticky |-> st.sticky \/ (st.num[Len(st.num)] % 2) = 1,
     shifts |-> st.shifts + 1]

RECURSIVE HalveTimes(_, _)
HalveTimes(st, k) ==
    IF k = 0 THEN st
    ELSE IF k = 1 THEN HalveOnce(st)
    ELSE LET first == HalveTimes(st, k \div 2) IN
         IF Len(first.num) > 0 THEN HalveTimes(first, k - k \div 2) ELSE first

Two53 == DoubleTimes(<<1>>, 53)
Two54 == DoubleTimes(<<1>>, 54)
Two1024 == DoubleTimes(<<1>>, 1024)
\* a Number has 53 significant bits and is below 2^1024
LargestShift == 971
\* the decimal digits of the largest finite Number
LongestNumeral == 309

\* shifts right until 54 bits are left
RECURSIVE ShiftTo54(_)
ShiftTo54(st) == IF Less(st.num, Two54) THEN st ELSE ShiftTo54(HalveOnce(st))

\* the magnitude of the Number value of the integer ns: the integer itself
\* below 2^53, otherwise the nearest 53-bit significand times a power of 2,
\* a tie going to the even significand, and Infinity from 2^1024 - 2^970 on
NearestDouble(ns) ==
    IF Less(ns, Two53) THEN [inf |-> FALSE, digits |-> ns]
    ELSE IF Len(ns) > LongestNumeral THEN [inf |-> TRUE, digits |-> << >>]
    ELSE LET \* 2^93 < 10^28: this many bits can go before 54 are left
             low == (93 * (Len(ns) - 1)) \div 28 - 53
             st == ShiftTo54(HalveTimes([num |-> ns, sticky |-> FALSE,
                                         shifts |-> 0],
                                        IF low > 0 THEN low ELSE 0))
             m == Halved(st.num)
             half == (st.num[Len(st.num)] % 2) = 1
             up == half /\ (st.sticky \/ (m[Len(m)] % 2) = 1)
             mant == IF up THEN Succ(m) ELSE m
             shift == st.shifts + 1
         IN  IF shift > LargestShift \/ (shift = LargestShift /\ mant = Two53)
             THEN [inf |-> TRUE, digits |-> << >>]
             ELSE [inf |-> FALSE, digits |-> DoubleTimes(mant, shift)]

\* x * 2 on a Number: exact, or Infinity from 2^1024 on
NumTimes2(x) ==
    IF x.inf THEN x
    ELSE LET d == Doubled(x.digits) IN
         IF Len(d) > LongestNumeral \/ (Len(d) = LongestNumeral /\ ~Less(d, Two1024))
         THEN [x EXCEPT !.inf = TRUE, !.digits = << >>]
         ELSE [x EXCEPT !.digits = d]

\* the magnitude of the Number a run of decimal digits stands for
DigitsValue(ds) ==
    NearestDouble(StripZeros([i \in 1 .. Len(ds) |-> DigitValue(ds[i])]))

\* parseInt(s, 10) on a string: leading white space, an optional sign, then
\* the longest run of digits; NaN when there is no digit
ParseInt(s) ==
    LET t == SkipWhiteSpace(s)
        signed == t # << >> /\ Head(t) \in {"+", "-"}
        ds == DigitPrefix(IF signed THEN Tail(t) ELSE t)
        mag == DigitsValue(ds)
    IN  IF ds = << >> THEN [nan |-> TRUE, val |-> Num(0)]
        ELSE [nan |-> FALSE,
              val |-> [neg |-> signed /\ Head(t) = "-", inf |-> mag.inf,
                       digits |-> mag.digits]]

TenRanks == {"K", "Q", "J", "10"}

\* the for loop: the running [score, aces] over the cards in order
RECURSIVE ScoreLoop(_, _, _)
ScoreLoop(cards, score, aces) ==
    IF cards = << >> THEN [score |-> score, aces |-> aces]
    ELSE LET card == Head(cards) IN
         IF card.rank = "A" THEN ScoreLoop(Tail(cards), score + 11, aces + 1)
         ELSE IF card.rank \in TenRanks THEN ScoreLoop(Tail(cards), score + 10, aces)
         ELSE ScoreLoop(Tail(cards), score + IntOf(ParseInt(<<card.rank>>).val), aces)

\* variant: at most one ace is ever counted 1
ReduceAcesOnce(score, aces) ==
    IF score > BustLimit /\ aces > 0 THEN score - 10 ELSE score

\* the while loop: an ace counted 11 becomes 1 while the score is over 21
RECURSIVE ReduceAces(_, _)
ReduceAces(score, aces) ==
    IF score > BustLimit /\ aces > 0 THEN ReduceAces(score - 10, aces - 1)
    ELSE score

CalculateScore(cards) ==
    LET r == ScoreLoop(cards, 0, 0) IN ReduceAces(r.score, r.aces)

----------------------------------------------------------------------------
(* The deal order *)

\* variant: the dealer is dealt a second card after the second pass
DealOrderDealerTwice ==
    <<0, 1, 2, 3, 4, 5, 6, 7,
      DealerSlot,
      0, 1, 2, 3, 4, 5, 6, 7,
      DealerSlot>>

\* 0..7, "dealer", 0..7: the dealer's slot is written DealerSlot here
DealOrder ==
    <<0, 1, 2, 3, 4, 5, 6, 7,
      DealerSlot,
      0, 1, 2, 3, 4, 5, 6, 7>>

\* typeof seat === "number"
IsPlayerSlot(seat) == seat # DealerSlot

----------------------------------------------------------------------------
(* Initial state *)

PlayerId(i) == <<"player", i + 1>>

\* a bet amount as the table hands it over: the text of the input, or
\* undefined when nothing was typed for the seat
Str(chars) == [type |-> "string", chars |-> chars]
UndefinedAmount == [type |-> "undefined", chars |-> << >>]

Mounted == [op |-> "mount", idx |-> -1, cursor |-> -1, amount |-> UndefinedAmount]

\* no interval is set, so no callback holds a render
NoClosure ==
    [live |-> FALSE, players |-> << >>, deck |-> << >>, same |-> << >>,
     shared |-> FALSE]

\* no pure function has been called
NoCall == [fn |-> "none", arg |-> << >>, result |-> 0]

InitialPlayers ==
    [i \in Seats |->
        [id |-> PlayerId(i), cards |-> << >>, bet |-> Num(0), score |-> 0,
         actions |-> << >>]]

InitialDealer == [id |-> "dealer-1", cards |-> << >>, score |-> 0]


\* players.findIndex((p) => p.id === playerId)
FindIndex(ps, playerId) ==
    IF \E i \in DOMAIN ps : ps[i].id = playerId
    THEN CHOOSE i \in DOMAIN ps :
            /\ ps[i].id = playerId
            /\ \A j \in DOMAIN ps : ps[j].id = playerId => i <= j
    ELSE -1

InitializeGame ==
    /\ players' = InitialPlayers
    /\ dealer' = InitialDealer
    /\ deck' = << >>
    /\ dealIndex' = 0
    /\ isDealing' = FALSE
    /\ phase' = 1
    /\ bettingIndex' = 0
    /\ currentPlayerIndex' = 0

Init ==
    /\ players = InitialPlayers
    /\ dealer = InitialDealer
    /\ deck = << >>
    /\ dealIndex = 0
    /\ isDealing = FALSE
    /\ phase = 1
    /\ bettingIndex = 0
    /\ currentPlayerIndex = 0
    /\ isHitStandActive = FALSE
    /\ hitStandIndex = 0
    /\ hitStandClosure = NoClosure
    /\ dealClosure = NoClosure
    /\ call = NoCall
    /\ lastOp = Mounted
    /\ thrown = "none"
    /\ doubled = {}
    /\ betLog = << >>
    /\ unusual = 0
    /\ unmounted = FALSE

----------------------------------------------------------------------------
(* Phase 1: bets *)

\* String(betAmount), the first thing parseInt does with its argument
ToChars(betAmount) ==
    IF betAmount.type = "undefined"
    THEN <<"u", "n", "d", "e", "f", "i", "n", "e", "d">>
    ELSE betAmount.chars

\* parseInt(betAmount, 10) || 0
NumericBet(betAmount) ==
    LET n == ParseInt(ToChars(betAmount)) IN
    IF n.nan \/ IsZero(n.val) THEN Num(0) ELSE n.val

\* numericBet > 0 ? numericBet : 5
StoredBet(betAmount) ==
    IF IsPositive(NumericBet(betAmount)) THEN NumericBet(betAmount)
    ELSE Num(MinBet)

\* players.map((p) => ({...p, cards: [], score: 0, actions: []})) over the
\* players of the render that created the handler
ResetPlayers ==
    [i \in DOMAIN players |->
        [players[i] EXCEPT !.cards = << >>, !.score = 0, !.actions = << >>]]

GoToPhase2 ==
    /\ \E seed \in Seeds : deck' = FreshShoes[seed]
    /\ players' = ResetPlayers
    /\ dealer' = [dealer EXCEPT !.cards = << >>, !.score = 0]
    /\ phase' = 2

HandleSubmitBet(playerId, betAmount) ==
    LET pIndex == FindIndex(players, playerId) IN
    IF pIndex = -1 THEN UNCHANGED progVars
    ELSE
        LET newPlayers ==
                [players EXCEPT ![pIndex].bet = StoredBet(betAmount)]
        IN  /\ bettingIndex' = bettingIndex + 1
            /\ IF bettingIndex >= NumSeats - 1
               THEN \* setPlayers(newPlayers) is queued first and
                    \* goToPhase2's setPlayers(resetPlayers) after it: the
                    \* later value is the one the next render sees
                    GoToPhase2
               ELSE /\ players' = newPlayers
                    /\ UNCHANGED <<deck, dealer, phase>>
            /\ UNCHANGED <<dealIndex, isDealing, currentPlayerIndex>>

----------------------------------------------------------------------------
(* Phase 2: dealing *)

\* variant: the card is read from the front of the array
TopIsFirst(d) == IF d = << >> THEN Undefined ELSE d[1]

\* currentDeck.pop(): the last card, undefined on an empty array
Top(d) == IF d = << >> THEN Undefined ELSE d[Len(d)]
Popped(d) == IF d = << >> THEN d ELSE SubSeq(d, 1, Len(d) - 1)

\* variant: the end of the deal sets phase 3 and leaves isDealing set
DealNextCardKeepsDealing(renderDeck) ==
    IF dealIndex >= Len(DealOrder)
    THEN /\ phase' = 3
         /\ UNCHANGED <<players, dealer, deck, bettingIndex, dealIndex,
                        isDealing, currentPlayerIndex>>
    ELSE IF renderDeck = << >>
    THEN \* nextCard is undefined: the updater's calculateScore throws on
         \* its rank while React renders, and nothing is committed
         UNCHANGED progVars
    ELSE LET nextCard == Top(renderDeck)
             seat == DealOrder[dealIndex + 1]
         IN  /\ deck' = Popped(renderDeck)
             /\ IF IsPlayerSlot(seat)
                THEN LET cards == Append(players[seat].cards, nextCard) IN
                     /\ players' = [players EXCEPT
                                       ![seat].cards = cards,
                                       ![seat].score = CalculateScore(cards)]
                     /\ UNCHANGED dealer
                ELSE LET newCards == Append(dealer.cards, nextCard) IN
                     /\ dealer' = [dealer EXCEPT
                                      !.cards = newCards,
                                      !.score = CalculateScore(newCards)]
                     /\ UNCHANGED players
             /\ dealIndex' = dealIndex + 1
             /\ UNCHANGED <<phase, bettingIndex, isDealing, currentPlayerIndex>>

\* dealNextCard of a render: `renderDeck` is the deck of that render, read
\* by [...deck]; players and dealer are updated from the current state, and
\* the render's dealIndex is the current one (a changed dealIndex runs the
\* effect again)
DealNextCard(renderDeck) ==
    IF dealIndex >= Len(DealOrder)
    THEN /\ isDealing' = FALSE
         /\ phase' = 3
         /\ UNCHANGED <<players, dealer, deck, bettingIndex, dealIndex,
                        currentPlayerIndex>>
    ELSE IF renderDeck = << >>
    THEN \* nextCard is undefined: the updater's calculateScore throws on
         \* its rank while React renders, and nothing is committed
         UNCHANGED progVars
    ELSE LET nextCard == Top(renderDeck)
             seat == DealOrder[dealIndex + 1]
         IN  /\ deck' = Popped(renderDeck)
             /\ IF IsPlayerSlot(seat)
                THEN LET cards == Append(players[seat].cards, nextCard) IN
                     /\ players' = [players EXCEPT
                                       ![seat].cards = cards,
                                       ![seat].score = CalculateScore(cards)]
                     /\ UNCHANGED dealer
                ELSE LET newCards == Append(dealer.cards, nextCard) IN
                     /\ dealer' = [dealer EXCEPT
                                      !.cards = newCards,
                                      !.score = CalculateScore(newCards)]
                     /\ UNCHANGED players
             /\ dealIndex' = dealIndex + 1
             /\ UNCHANGED <<phase, bettingIndex, isDealing, currentPlayerIndex>>

HandleStartDealing ==
    IF dealIndex >= Len(DealOrder) THEN UNCHANGED progVars
    ELSE /\ isDealing' = TRUE
         /\ UNCHANGED <<phase, players, dealer, deck, bettingIndex, dealIndex,
                        currentPlayerIndex>>

HandleStopDealing ==
    /\ isDealing' = FALSE
    /\ UNCHANGED <<phase, players, dealer, deck, bettingIndex, dealIndex,
                   currentPlayerIndex>>

----------------------------------------------------------------------------
(* Phase 3: hit, stand, double *)

\* the actions array after "hit", with "bust" pushed when the score is over 21
HitActions(actions, score) ==
    IF score > BustLimit THEN Append(Append(actions, "hit"), "bust")
    ELSE Append(actions, "hit")

\* variant: the cursor moves on after every hit, bust or not
HandlePlayerHitAlwaysNext(playerId) ==
    LET pIndex == FindIndex(players, playerId) IN
    IF pIndex = -1 \/ deck = << >> THEN UNCHANGED progVars
    ELSE
        LET cards == Append(players[pIndex].cards, Top(deck))
            score == CalculateScore(cards)
        IN  /\ players' = [players EXCEPT
                              ![pIndex].cards = cards,
                              ![pIndex].score = score,
                              ![pIndex].actions =
                                  HitActions(players[pIndex].actions, score)]
            /\ currentPlayerIndex' = currentPlayerIndex + 1
            /\ deck' = Popped(deck)
            /\ UNCHANGED <<phase, dealer, bettingIndex, dealIndex, isDealing>>

\* variant: the stored score is brought forward by the new card's own value
\* instead of being recomputed from the whole hand
HandlePlayerHitAddsValue(playerId) ==
    LET pIndex == FindIndex(players, playerId) IN
    IF pIndex = -1 \/ deck = << >> THEN UNCHANGED progVars
    ELSE
        LET nextCard == Top(deck)
            cards == Append(players[pIndex].cards, nextCard)
            score == players[pIndex].score + CalculateScore(<<nextCard>>)
        IN  /\ players' = [players EXCEPT
                              ![pIndex].cards = cards,
                              ![pIndex].score = score,
                              ![pIndex].actions =
                                  HitActions(players[pIndex].actions, score)]
            /\ currentPlayerIndex' =
                  IF score > BustLimit THEN currentPlayerIndex + 1
                  ELSE currentPlayerIndex
            /\ deck' = Popped(deck)
            /\ UNCHANGED <<phase, dealer, bettingIndex, dealIndex, isDealing>>

HandlePlayerHit(playerId) ==
    LET pIndex == FindIndex(players, playerId) IN
    IF pIndex = -1 THEN UNCHANGED progVars
    ELSE IF deck = << >>
    THEN \* nextCard is undefined and calculateScore throws on its rank,
         \* before any setState
         UNCHANGED progVars
    ELSE
        LET nextCard == Top(deck)
            cards == Append(players[pIndex].cards, nextCard)
            score == CalculateScore(cards)
        IN  /\ players' = [players EXCEPT
                              ![pIndex].cards = cards,
                              ![pIndex].score = score,
                              ![pIndex].actions =
                                  HitActions(players[pIndex].actions, score)]
            /\ currentPlayerIndex' =
                  IF score > BustLimit THEN currentPlayerIndex + 1
                  ELSE currentPlayerIndex
            /\ deck' = Popped(deck)
            /\ UNCHANGED <<phase, dealer, bettingIndex, dealIndex, isDealing>>

\* variant: standing also clears the seat's score
HandlePlayerStandClearsScore(playerId) ==
    LET pIndex == FindIndex(players, playerId) IN
    IF pIndex = -1 THEN UNCHANGED progVars
    ELSE /\ players' = [players EXCEPT
                           ![pIndex].actions = Append(@, "stand"),
                           ![pIndex].score = 0]
         /\ currentPlayerIndex' = currentPlayerIndex + 1
         /\ UNCHANGED <<phase, dealer, deck, bettingIndex, dealIndex, isDealing>>

\* variant: after a stand the dealer draws a card
HandlePlayerStandDealerDraws(playerId) ==
    LET pIndex == FindIndex(players, playerId) IN
    IF pIndex = -1 \/ deck = << >> THEN UNCHANGED progVars
    ELSE LET newCards == Append(dealer.cards, Top(deck)) IN
         /\ players' = [players EXCEPT
                           ![pIndex].actions = Append(@, "stand")]
         /\ currentPlayerIndex' = currentPlayerIndex + 1
         /\ dealer' = [dealer EXCEPT !.cards = newCards,
                                     !.score = CalculateScore(newCards)]
         /\ deck' = Popped(deck)
         /\ UNCHANGED <<phase, bettingIndex, dealIndex, isDealing>>

HandlePlayerStand(playerId) ==
    LET pIndex == FindIndex(players, playerId) IN
    IF pIndex = -1 THEN UNCHANGED progVars
    ELSE /\ players' = [players EXCEPT
                           ![pIndex].actions = Append(@, "stand")]
         /\ currentPlayerIndex' = currentPlayerIndex + 1
         /\ UNCHANGED <<phase, dealer, deck, bettingIndex, dealIndex, isDealing>>

\* variant: as for a hit, the cursor moves on only when the seat busts
HandlePlayerDoubleNextOnBust(playerId) ==
    LET pIndex == FindIndex(players, playerId) IN
    IF pIndex = -1 \/ deck = << >> THEN UNCHANGED progVars
    ELSE
        LET cards == Append(players[pIndex].cards, Top(deck))
            score == CalculateScore(cards)
        IN  /\ players' = [players EXCEPT
                              ![pIndex].bet = NumTimes2(players[pIndex].bet),
                              ![pIndex].cards = cards,
                              ![pIndex].score = score,
                              ![pIndex].actions =
                                  HitActions(players[pIndex].actions, score)]
            /\ deck' = Popped(deck)
            /\ currentPlayerIndex' =
                  IF score > BustLimit THEN currentPlayerIndex + 1
                  ELSE currentPlayerIndex
            /\ UNCHANGED <<phase, dealer, bettingIndex, dealIndex, isDealing>>

HandlePlayerDouble(playerId) ==
    LET pIndex == FindIndex(players, playerId) IN
    IF pIndex = -1 THEN UNCHANGED progVars
    ELSE IF deck = << >>
    THEN UNCHANGED progVars
    ELSE
        LET nextCard == Top(deck)
            cards == Append(players[pIndex].cards, nextCard)
            score == CalculateScore(cards)
        IN  /\ players' = [players EXCEPT
                              ![pIndex].bet = NumTimes2(players[pIndex].bet),
                              ![pIndex].cards = cards,
                              ![pIndex].score = score,
                              ![pIndex].actions =
                                  HitActions(players[pIndex].actions, score)]
            /\ deck' = Popped(deck)
            /\ currentPlayerIndex' = currentPlayerIndex + 1
            /\ UNCHANGED <<phase, dealer, bettingIndex, dealIndex, isDealing>>

HandleRestart == InitializeGame

----------------------------------------------------------------------------
(* The table: which handler can be called when *)

\* the bet inputs are rendered in phase 1, the Start/Stop buttons in phase 2,
\* the seat buttons and the restart button in phase 3
BettingControls == phase = 1
DealingControls == phase = 2
DecisionControls == phase = 3

\* the render the deal callback holds when its effect has just run; its
\* deck is the array of the state, the one handlePlayerHit and
\* handlePlayerDouble pop in place
ManualDealClosureOf(d) ==
    [live |-> TRUE, players |-> << >>, deck |-> d, same |-> << >>,
     shared |-> TRUE]

\* the deal callback after a handler that left isDealing and dealIndex
\* alone: `pops` when the handler popped the state's deck in place,
\* `setsDeck` when it stored another array as the deck
KeptDealClosure(setsDeck, pops) ==
    IF ~dealClosure.live THEN dealClosure
    ELSE [dealClosure EXCEPT
             !.deck = IF pops /\ dealClosure.shared THEN Popped(@) ELSE @,
             !.shared = @ /\ ~setsDeck]

\* useEffect(.., [isDealing, dealIndex]): the interval is set again, with
\* the new render, when one of the two changed while isDealing is on, and
\* is cleared when isDealing is off
ManualDealEffect(setsDeck, pops) ==
    dealClosure' =
        IF ~isDealing' THEN NoClosure
        ELSE IF isDealing' # isDealing \/ dealIndex' # dealIndex
             THEN ManualDealClosureOf(deck')
             ELSE KeptDealClosure(setsDeck, pops)

\* an interval is set and its callback holds a render
IntervalActive == dealClosure.live

\* the component is on the page: its buttons can be pressed and its
\* intervals can tick, and the call leaves it there
StaysMounted == ~unmounted /\ UNCHANGED unmounted

\* the frame of the manual component: it has no hit/stand interval
manualFrame == UNCHANGED <<isHitStandActive, hitStandIndex, hitStandClosure, call>>

\* the ids a call can carry: the eight seats and one id no seat has
PlayerIds == {PlayerId(i) : i \in Seats} \cup {PlayerId(NumSeats)}

\* the amount a seat usually bets
UsualAmounts == { Str(<<"2", "5">>) }

\* the amounts tried in the betting phase
BetInputs ==
    UsualAmounts \cup
    { UndefinedAmount,
      Str(<< >>),
      Str(<<"a", "b", "c">>),
      Str(<<"-", "5">>),
      Str(<<"0">>),
      Str(<<"7">>),
      Str(<<"\t", "U+00A0", "9">>),
      Str(<<"1", "2", "x">>),
      Str(<<"1", "0", "0", "0", "0", "0", "0">>),
      Str(<<"9", "0", "0", "7", "1", "9", "9", "2", "5", "4", "7", "4", "0",
            "9", "9", "3">>) }

\* hit/stand/double calls made so far this round
RECURSIVE CountActs(_)
CountActs(actions) ==
    IF actions = << >> THEN 0
    ELSE (IF Head(actions) = "bust" THEN 0 ELSE 1) + CountActs(Tail(actions))

RECURSIVE SumActs(_)
SumActs(i) == IF i < 0 THEN 0 ELSE CountActs(players[i].actions) + SumActs(i - 1)
ActsMade == SumActs(NumSeats - 1)

OffCursor(pIndex, cursor) == pIndex # -1 /\ pIndex # cursor

Track(op, pIndex, cursor, amount, isUnusual) ==
    /\ isUnusual => unusual < MaxUnusual
    /\ lastOp' = [op |-> op, idx |-> pIndex, cursor |-> cursor, amount |-> amount]
    /\ unusual' = IF isUnusual THEN unusual + 1 ELSE unusual
    /\ doubled' = IF op = "double" /\ pIndex # -1 /\ deck # << >>
                  THEN doubled \cup {pIndex} ELSE doubled
    /\ StaysMounted
    /\ manualFrame

\* the deal callback after handleSubmitBet, handlePlayerHit,
\* handlePlayerStand or handlePlayerDouble: hit and double pop the deck in
\* place and store a copy, the 8th bet stores a new shoe
TrackEffect(op, pIndex, cursor) ==
    LET pops == op \in {"hit", "double"} /\ pIndex # -1 /\ deck # << >>
        shoe == op = "submitBet" /\ pIndex # -1 /\ cursor >= NumSeats - 1
    IN  ManualDealEffect(pops \/ shoe, pops)

Other(op) ==
    /\ lastOp' = [op |-> op, idx |-> -1, cursor |-> -1, amount |-> UndefinedAmount]
    /\ UNCHANGED <<betLog, unusual, doubled>>
    /\ ManualDealEffect(FALSE, FALSE)
    /\ StaysMounted
    /\ manualFrame

\* a call of handleSubmitBet, which tests no phase
SubmitBetCall(playerId, betAmount) ==
    LET pIndex == FindIndex(players, playerId) IN
    /\ HandleSubmitBet(playerId, betAmount)
    /\ Track("submitBet", pIndex, bettingIndex, betAmount,
             OffCursor(pIndex, bettingIndex) \/ betAmount \notin UsualAmounts)
    /\ betLog' = IF pIndex = -1 THEN betLog
                 ELSE Append(betLog, [seat |-> pIndex, amount |-> betAmount,
                                      cursor |-> bettingIndex])
    /\ thrown' = "none"
    /\ TrackEffect("submitBet", pIndex, bettingIndex)

\* the call made in the betting phase, where the page renders the bet input
SubmitBet(playerId, betAmount) ==
    /\ BettingControls
    /\ SubmitBetCall(playerId, betAmount)

StartDealing ==
    /\ DealingControls
    /\ ~isDealing
    /\ HandleStartDealing
    /\ Other("startDealing")
    /\ thrown' = "none"

StopDealing ==
    /\ DealingControls
    /\ isDealing
    /\ HandleStopDealing
    /\ Other("stopDealing")
    /\ thrown' = "none"

\* nextCard undefined: calculateScore reads its rank in the updater, a
\* TypeError while React renders
DealThrows(renderDeck) ==
    IF dealIndex < Len(DealOrder) /\ renderDeck = << >> THEN "TypeError"
    ELSE "none"

\* the interval callback calls the dealNextCard of the render it holds; an
\* updater that throws while React renders takes the component off the page,
\* and the effect's cleanup clears the interval
DealTick ==
    /\ IntervalActive
    /\ ~unmounted
    /\ DealNextCard(dealClosure.deck)
    /\ lastOp' = [op |-> "tick", idx |-> -1, cursor |-> -1,
                  amount |-> UndefinedAmount]
    /\ thrown' = DealThrows(dealClosure.deck)
    /\ unmounted' = (DealThrows(dealClosure.deck) # "none")
    /\ IF DealThrows(dealClosure.deck) # "none" THEN dealClosure' = NoClosure
       ELSE ManualDealEffect(FALSE, FALSE)
    /\ UNCHANGED <<betLog, unusual, doubled>>
    /\ manualFrame

Decision(op, playerId) ==
    /\ DecisionControls
    /\ ActsMade < MaxActs
    /\ Track(op, FindIndex(players, playerId), currentPlayerIndex, UndefinedAmount,
             OffCursor(FindIndex(players, playerId), currentPlayerIndex))
    /\ UNCHANGED betLog

\* deck.pop() on an empty deck gives undefined, the hand gets it as its last
\* element and calculateScore reads its rank: a TypeError, before any setState
DrawThrows(playerId) ==
    IF FindIndex(players, playerId) # -1 /\ deck = << >> THEN "TypeError"
    ELSE "none"

Hit(playerId) ==
    /\ Decision("hit", playerId)
    /\ HandlePlayerHit(playerId)
    /\ thrown' = DrawThrows(playerId)
    /\ TrackEffect("hit", FindIndex(players, playerId), currentPlayerIndex)

Stand(playerId) ==
    /\ Decision("stand", playerId)
    /\ HandlePlayerStand(playerId)
    /\ thrown' = "none"
    /\ TrackEffect("stand", FindIndex(players, playerId), currentPlayerIndex)

Double(playerId) ==
    /\ Decision("double", playerId)
    /\ HandlePlayerDouble(playerId)
    /\ thrown' = DrawThrows(playerId)
    /\ TrackEffect("double", FindIndex(players, playerId), currentPlayerIndex)

Restart ==
    /\ DecisionControls
    /\ HandleRestart
    /\ lastOp' = [op |-> "restart", idx |-> -1, cursor |-> -1,
                  amount |-> UndefinedAmount]
    /\ thrown' = "none"
    /\ doubled' = {}
    /\ betLog' = << >>
    /\ unusual' = 0
    /\ ManualDealEffect(TRUE, FALSE)
    /\ StaysMounted
    /\ manualFrame

\* the seat at the betting cursor bets the usual amount
PlaceBetInTurn ==
    \E amt \in UsualAmounts : SubmitBet(PlayerId(bettingIndex), amt)
\* any id bets the usual amount
PlaceBet == \E id \in PlayerIds, amt \in UsualAmounts : SubmitBet(id, amt)
\* any id bets any amount
PlaceAnyBet == \E id \in PlayerIds, amt \in BetInputs : SubmitBet(id, amt)
PlayerHit == \E id \in PlayerIds : Hit(id)
PlayerStand == \E id \in PlayerIds : Stand(id)
PlayerDouble == \E id \in PlayerIds : Double(id)

\* a whole round: bets in turn, the deal, then decisions by any seat
Next ==
    \/ PlaceBetInTurn
    \/ StartDealing
    \/ StopDealing
    \/ DealTick
    \/ PlayerHit
    \/ PlayerStand
    \/ PlayerDouble
    \/ Restart

Spec == Init /\ [][Next]_vars

\* a seat's bet submitted once more after the betting phase, while the cards
\* are dealt or the decisions are made
LateBet ==
    /\ ~BettingControls
    /\ \E id \in PlayerIds, amt \in UsualAmounts : SubmitBetCall(id, amt)

\* a whole round in which a bet may also arrive after the betting phase
NextLateBet ==
    \/ PlaceBetInTurn
    \/ LateBet
    \/ StartDealing
    \/ StopDealing
    \/ DealTick
    \/ PlayerHit
    \/ PlayerStand
    \/ PlayerDouble
    \/ Restart

SpecLateBet == Init /\ [][NextLateBet]_vars

\* the betting phase with every amount and every id, up to the deal
NextBetting == PlaceAnyBet

SpecBetting == Init /\ [][NextBetting]_vars

\* bets by any id, then the deal up to the first decision
NextDeal ==
    \/ PlaceBet
    \/ StartDealing
    \/ StopDealing
    \/ DealTick
    \/ Restart

SpecDeal == Init /\ [][NextDeal]_vars

\* the seat under the cursor hits, and once the cursor has left the table
\* the seats go on hitting in seat order; no limit on the number of hits
KeepHitting ==
    LET playerId == PlayerId(currentPlayerIndex % NumSeats) IN
    /\ DecisionControls
    /\ HandlePlayerHit(playerId)
    /\ lastOp' = [op |-> "hit", idx |-> FindIndex(players, playerId),
                  cursor |-> currentPlayerIndex, amount |-> UndefinedAmount]
    /\ thrown' = DrawThrows(playerId)
    /\ UNCHANGED <<betLog, unusual, doubled>>
    /\ ManualDealEffect(deck # << >>, deck # << >>)
    /\ StaysMounted
    /\ manualFrame

----------------------------------------------------------------------------
(* The self-playing BlackjackGame of TableLayout.js.  Its generateDeck,    *)
(* shuffleDeck, dealOrder and calculateScore are copies of the ones above. *)
(* An interval callback runs the functions of the render in which its      *)
(* effect last ran: it reads that render's players and deck, not the       *)
(* current ones.  The objects of that render can still be part of the      *)
(* current state, so what the callback changes in place shows there too.   *)

AutoInitialPlayers ==
    [i \in Seats |->
        [id |-> PlayerId(i), cards |-> << >>, bet |-> Num(0), score |-> 0,
         actions |-> << >>, isBlackjack |-> FALSE, isBust |-> FALSE]]

InitAuto ==
    /\ players = AutoInitialPlayers
    /\ dealer = InitialDealer
    /\ deck = << >>
    /\ dealIndex = 0
    /\ isDealing = FALSE
    /\ phase = 1
    /\ bettingIndex = 0
    /\ currentPlayerIndex = 0
    /\ isHitStandActive = FALSE
    /\ hitStandIndex = 0
    /\ hitStandClosure = NoClosure
    /\ dealClosure = NoClosure
    /\ call = NoCall
    /\ lastOp = Mounted
    /\ thrown = "none"
    /\ doubled = {}
    /\ betLog = << >>
    /\ unusual = 0
    /\ unmounted = FALSE

\* getRandomBet(): one of 5, 10, .., 50; here the value random source `seed`
\* draws for seat i
GetRandomBet(seed, i) == Num(5 * (1 + ((seed + i * (seed + 1)) % 10)))

\* the render a hit/stand callback holds when its effect has just run:
\* every player object and every actions array is the one of the state
HitStandClosureOf(ps, d) ==
    [live |-> TRUE, players |-> ps, deck |-> d,
     same |-> [i \in Seats |-> TRUE], shared |-> TRUE]

\* the render a deal callback holds; dealNextCard reads only its deck
DealClosureOf(d) ==
    [live |-> TRUE, players |-> << >>, deck |-> d, same |-> << >>,
     shared |-> FALSE]

\* the hit/stand callback after a handler that replaced the player objects
\* of the seats in `replaced` and left isHitStandActive and hitStandIndex
\* alone: the effect does not run again
StaleHitStandClosure(replaced, newArrays) ==
    IF ~hitStandClosure.live THEN hitStandClosure
    ELSE [hitStandClosure EXCEPT
             !.same = [i \in Seats |-> @[i] /\ i \notin replaced],
             !.shared = @ /\ ~newArrays]

\* useEffect(.., [isDealing, dealIndex]): the interval is set again, with
\* the new render, when one of the two changed, and is cleared otherwise
\* only when isDealing is off
DealEffect ==
    dealClosure' =
        IF ~isDealing' THEN NoClosure
        ELSE IF isDealing' # isDealing \/ dealIndex' # dealIndex
             THEN DealClosureOf(deck')
             ELSE dealClosure

AutoInitializeGame ==
    /\ phase' = 1
    /\ players' = AutoInitialPlayers
    /\ dealer' = InitialDealer
    /\ deck' = << >>
    /\ dealIndex' = 0
    /\ isDealing' = FALSE

CollectBets ==
    /\ \E seed \in Seeds :
          players' = [i \in Seats |->
                         [players[i] EXCEPT !.bet = GetRandomBet(seed, i)]]
    /\ hitStandClosure' = StaleHitStandClosure(Seats, FALSE)
    /\ UNCHANGED <<phase, dealer, deck, dealIndex, isDealing,
                   isHitStandActive, hitStandIndex>>
    /\ DealEffect

AutoGoToPhase2 ==
    /\ \E seed \in Seeds : deck' = ShuffleDeck(GenerateDeck, seed)
    /\ players' = [i \in Seats |->
                      [players[i] EXCEPT !.cards = << >>, !.score = 0]]
    /\ dealer' = InitialDealer
    /\ phase' = 2
    /\ hitStandClosure' = StaleHitStandClosure(Seats, FALSE)
    /\ UNCHANGED <<dealIndex, isDealing, isHitStandActive, hitStandIndex>>
    /\ DealEffect

\* dealNextCard of the render the deal interval holds: deck is that
\* render's, players and dealer are updated from the current state
AutoDealNextCard ==
    IF dealIndex >= Len(DealOrder)
    THEN /\ isDealing' = FALSE
         /\ phase' = 3
         /\ UNCHANGED <<players, dealer, deck, dealIndex, hitStandClosure>>
    ELSE IF dealClosure.deck = << >>
    THEN \* nextCard is undefined: the updater's calculateScore throws on
         \* its rank while React renders, nothing is committed, and React
         \* takes the component off the page: the cleanups clear both intervals
         /\ hitStandClosure' = NoClosure
         /\ UNCHANGED <<phase, players, dealer, deck, dealIndex, isDealing>>
    ELSE LET nextCard == Top(dealClosure.deck)
             seat == DealOrder[dealIndex + 1]
         IN  /\ deck' = Popped(dealClosure.deck)
             /\ IF IsPlayerSlot(seat)
                THEN LET cards == Append(players[seat].cards, nextCard) IN
                     /\ players' = [players EXCEPT
                                       ![seat].cards = cards,
                                       ![seat].score = CalculateScore(cards)]
                     /\ hitStandClosure' = StaleHitStandClosure({seat}, FALSE)
                     /\ UNCHANGED dealer
                ELSE LET newCards == Append(dealer.cards, nextCard) IN
                     /\ dealer' = [dealer EXCEPT
                                      !.cards = newCards,
                                      !.score = CalculateScore(newCards)]
                     /\ UNCHANGED <<players, hitStandClosure>>
             /\ dealIndex' = dealIndex + 1
             /\ UNCHANGED <<phase, isDealing>>

AutoHandleStartDealing ==
    /\ IF dealIndex >= Len(DealOrder) THEN UNCHANGED isDealing
       ELSE isDealing' = TRUE
    /\ UNCHANGED <<phase, players, dealer, deck, dealIndex, isHitStandActive,
                   hitStandIndex, hitStandClosure>>
    /\ DealEffect

AutoHandleStopDealing ==
    /\ isDealing' = FALSE
    /\ UNCHANGED <<phase, players, dealer, deck, dealIndex, isHitStandActive,
                   hitStandIndex, hitStandClosure>>
    /\ DealEffect

StartHitStandPhase ==
    /\ phase' = 3
    /\ hitStandIndex' = 0
    /\ isHitStandActive' = TRUE
    \* the effect runs again only when one of its two cells changes, and
    \* otherwise the interval keeps the callback it has
    /\ hitStandClosure' = IF isHitStandActive /\ hitStandIndex = 0
                          THEN hitStandClosure
                          ELSE HitStandClosureOf(players, deck)
    /\ UNCHANGED <<players, dealer, deck, dealIndex, isDealing>>
    /\ DealEffect

\* useEffect(.., [isHitStandActive, hitStandIndex]) after a tick that left
\* isHitStandActive on: a changed index sets the interval again with the
\* new render, an unchanged one leaves the callback with `kept`
HitStandEffect(kept) ==
    hitStandClosure' =
        IF hitStandIndex' # hitStandIndex
        THEN HitStandClosureOf(players', deck')
        ELSE kept

\* doNextHitOrStand of the render the interval holds, with `action` the
\* outcome of Math.random() < 0.5 ? "hit" : "stand"
DoNextHitOrStand(action) ==
    LET C == hitStandClosure IN
    IF hitStandIndex >= Cardinality(DOMAIN C.players)
    THEN /\ isHitStandActive' = FALSE
         /\ hitStandClosure' = NoClosure
         /\ thrown' = "none"
         /\ UNCHANGED <<players, deck, hitStandIndex>>
    ELSE
        LET pIndex == hitStandIndex
            currentPlayer == C.players[pIndex]
            at21 == currentPlayer.score = 21
            over == currentPlayer.score > BustLimit
            \* currentPlayer.isBlackjack = true, currentPlayer.isBust = true
            flagged == [currentPlayer EXCEPT
                           !.isBlackjack = IF at21 THEN TRUE ELSE @,
                           !.isBust = IF over THEN TRUE ELSE @]
            \* updatedPlayer.actions.push(action): the array is the one of
            \* every copy of the player made since initializeGame
            actions == Append(currentPlayer.actions, action)
            \* the players of the callback and of the state once the
            \* changes made in place are done
            closurePlayers == [C.players EXCEPT
                                  ![pIndex] = [flagged EXCEPT !.actions = actions]]
            statePlayers ==
                [players EXCEPT
                    ![pIndex] =
                        [@ EXCEPT
                            !.isBlackjack =
                                IF C.same[pIndex] /\ at21 THEN TRUE ELSE @,
                            !.isBust =
                                IF C.same[pIndex] /\ over THEN TRUE ELSE @,
                            !.actions = IF C.shared THEN actions ELSE @]]
            \* the index after the two score checks
            checkedIndex == IF at21 \/ over THEN pIndex + 1 ELSE hitStandIndex
            kept == [C EXCEPT !.players = closurePlayers]
        IN
        /\ UNCHANGED isHitStandActive
        /\ IF action = "stand"
           THEN /\ players' = closurePlayers
                /\ hitStandIndex' = pIndex + 1
                /\ thrown' = "none"
                /\ UNCHANGED deck
           ELSE IF C.deck = << >>
           THEN \* newDeck.pop() is undefined and calculateScore throws on
                \* its rank; what was done before stays done
                /\ players' = statePlayers
                /\ hitStandIndex' = checkedIndex
                /\ thrown' = "TypeError"
                /\ UNCHANGED deck
           ELSE
               LET nextCard == Top(C.deck)
                   cards == Append(currentPlayer.cards, nextCard)
                   score == CalculateScore(cards)
                   updatedPlayer ==
                       [flagged EXCEPT
                           !.actions = actions, !.cards = cards,
                           !.score = score,
                           !.isBust = IF score > BustLimit THEN TRUE ELSE @]
                   newPlayers == [closurePlayers EXCEPT ![pIndex] = updatedPlayer]
               IN  /\ players' = newPlayers
                   /\ thrown' = "none"
                   /\ IF score > BustLimit
                      THEN /\ hitStandIndex' = pIndex + 1
                           /\ UNCHANGED deck
                      ELSE /\ hitStandIndex' = checkedIndex
                           /\ deck' = Popped(C.deck)
        /\ HitStandEffect(
              IF thrown' = "TypeError" THEN kept
              ELSE [kept EXCEPT !.same = [i \in Seats |-> i # pIndex],
                                !.shared = TRUE])

\* clearInterval(dealIntervalRef.current); initializeGame(): nothing touches
\* isHitStandActive, hitStandIndex or the hit/stand interval
AutoHandleRestart ==
    /\ AutoInitializeGame
    /\ hitStandClosure' = StaleHitStandClosure(Seats, TRUE)
    /\ UNCHANGED <<isHitStandActive, hitStandIndex>>
    /\ DealEffect

(* The self-playing game's page: which of its buttons and intervals can act *)

autoFrame == UNCHANGED <<bettingIndex, currentPlayerIndex, call, doubled, betLog>>

\* a button of the page: its handler throws nothing
AutoOp(op) ==
    /\ lastOp' = [op |-> op, idx |-> -1, cursor |-> hitStandIndex,
                  amount |-> UndefinedAmount]
    /\ thrown' = "none"
    /\ StaysMounted
    /\ autoFrame

\* entries in the actions of a list of players
RECURSIVE Entries(_, _)
Entries(ps, i) ==
    IF i < 0 THEN 0 ELSE Len(ps[i].actions) + Entries(ps, i - 1)

AutoCollectBets ==
    /\ phase = 1
    /\ CollectBets
    /\ AutoOp("collectBets")
    /\ UNCHANGED unusual

AutoNext ==
    /\ phase = 1
    /\ AutoGoToPhase2
    /\ AutoOp("goToPhase2")
    /\ UNCHANGED unusual

AutoStartDealing ==
    /\ phase = 2 /\ ~isDealing
    /\ AutoHandleStartDealing
    /\ AutoOp("startDealing")
    /\ UNCHANGED unusual

AutoStopDealing ==
    /\ phase = 2 /\ isDealing
    /\ AutoHandleStopDealing
    /\ AutoOp("stopDealing")
    /\ UNCHANGED unusual

AutoDealTick ==
    /\ dealClosure.live
    /\ ~unmounted
    /\ AutoDealNextCard
    /\ IF DealThrows(dealClosure.deck) # "none" THEN dealClosure' = NoClosure
       ELSE DealEffect
    /\ lastOp' = [op |-> "tick", idx |-> -1, cursor |-> hitStandIndex,
                  amount |-> UndefinedAmount]
    /\ autoFrame
    /\ thrown' = DealThrows(dealClosure.deck)
    /\ unmounted' = (DealThrows(dealClosure.deck) # "none")
    /\ UNCHANGED <<isHitStandActive, hitStandIndex, unusual>>

AutoStartHitStand ==
    /\ phase = 3 /\ ~isHitStandActive
    /\ StartHitStandPhase
    /\ AutoOp("startHitStand")
    /\ UNCHANGED unusual

HitStandTick ==
    /\ hitStandClosure.live
    /\ Entries(players, NumSeats - 1) < (IF phase = 3 THEN MaxTicks ELSE MaxStale)
    /\ Entries(hitStandClosure.players, NumSeats - 1) < MaxTicks
    /\ \E action \in {"hit", "stand"} :
          /\ DoNextHitOrStand(action)
          /\ lastOp' = [op |-> IF hitStandIndex >= NumSeats THEN "autoStop"
                               ELSE action,
                        idx |-> hitStandIndex, cursor |-> hitStandIndex,
                        amount |-> UndefinedAmount]
    /\ UNCHANGED <<phase, dealer, dealIndex, isDealing, dealClosure, unusual>>
    /\ StaysMounted
    /\ autoFrame

AutoRestart ==
    /\ unusual < MaxRestarts
    /\ AutoHandleRestart
    /\ AutoOp("restart")
    /\ unusual' = unusual + 1

NextAuto ==
    \/ AutoCollectBets
    \/ AutoNext
    \/ AutoStartDealing
    \/ AutoStopDealing
    \/ AutoDealTick
    \/ AutoStartHitStand
    \/ HitStandTick
    \/ AutoRestart

SpecAuto == InitAuto /\ [][NextAuto]_vars

\* "hit" entries in an actions array, and in those of the seats 0 .. i
RECURSIVE CountHits(_)
CountHits(actions) ==
    IF actions = << >> THEN 0
    ELSE (IF Head(actions) = "hit" THEN 1 ELSE 0) + CountHits(Tail(actions))

RECURSIVE HitsMade(_, _)
HitsMade(ps, i) ==
    IF i < 0 THEN 0 ELSE CountHits(ps[i].actions) + HitsMade(ps, i - 1)

\* the "Start Hit/Stand" button, pressed once in a round
RunStartHitStand ==
    /\ Entries(players, NumSeats - 1) = 0
    /\ AutoStartHitStand

\* a tick of the hit/stand interval; Math.random() gives "hit" at most
\* MaxAutoHits times in a round and "stand" as often as it is asked
RunTick ==
    /\ hitStandClosure.live
    /\ \E action \in {"hit", "stand"} :
          /\ action = "hit" => HitsMade(players, NumSeats - 1) < MaxAutoHits
          /\ DoNextHitOrStand(action)
          /\ lastOp' = [op |-> IF hitStandIndex >= NumSeats THEN "autoStop"
                               ELSE action,
                        idx |-> hitStandIndex, cursor |-> hitStandIndex,
                        amount |-> UndefinedAmount]
    /\ UNCHANGED <<phase, dealer, dealIndex, isDealing, dealClosure, unusual>>
    /\ StaysMounted
    /\ autoFrame

\* one self-playing round from the bets to the end of the automated
\* decisions, without stop and without restart
NextAutoRun ==
    \/ AutoNext
    \/ AutoStartDealing
    \/ AutoDealTick
    \/ RunStartHitStand
    \/ RunTick

\* setInterval keeps calling the callback as long as the interval is set
SpecAutoRun == InitAuto /\ [][NextAutoRun]_vars /\ WF_vars(RunTick)

----------------------------------------------------------------------------
(* The pure functions called on their own *)

pureFrame ==
    UNCHANGED <<progVars, autoVars, lastOp, thrown, doubled, betLog, unusual,
                unmounted>>

\* the cards a hand is made of here: every rank, in the first suit
HandCards == {[rank |-> Ranks[r], suit |-> Suits[1]] : r \in 1 .. Len(Ranks)}

\* calculateScore(cards) for the last hand with one more card
ScoreHand ==
    /\ call.fn \in {"none", "calculateScore"}
    /\ Len(call.arg) < MaxHand
    /\ \E card \in HandCards :
          LET cards == Append(call.arg, card) IN
          call' = [fn |-> "calculateScore", arg |-> cards,
                   result |-> CalculateScore(cards)]
    /\ pureFrame

\* generateShoe(n) followed by shuffleDeck, as goToPhase2 does with n = 6
BuildShoe ==
    /\ call.fn \in {"none", "shuffleDeck"}
    /\ \E n \in 0 .. MaxDecks, seed \in Seeds :
          call' = [fn |-> "shuffleDeck", arg |-> <<n, seed>>,
                   result |-> ShuffleDeck(GenerateShoe(n), seed)]
    /\ pureFrame

NextPure == ScoreHand \/ BuildShoe

SpecPure == Init /\ [][NextPure]_vars

\* a round played on until the shoe is empty
NextDrain ==
    \/ PlaceBetInTurn
    \/ StartDealing
    \/ DealTick
    \/ KeepHitting

SpecDrain == Init /\ [][NextDrain]_vars

\* the deal with its two buttons, after bets made in turn
NextDealing ==
    \/ PlaceBetInTurn
    \/ StartDealing
    \/ StopDealing
    \/ DealTick

\* the Start button is pressed again whenever dealing is off, and the
\* interval, whenever it is set again, gets to fire
SpecDealing ==
    Init /\ [][NextDealing]_vars /\ WF_vars(StartDealing) /\ SF_vars(DealTick)

----------------------------------------------------------------------------
(* Properties *)

DecisionOps == {"hit", "stand", "double"}

\* the last call was made for the seat at the cursor
InTurn(op) == op.idx # -1 /\ op.idx = op.cursor

\* C1: the phase only moves 1 -> 2 -> 3 within a round: no call and no tick
\* moves it from 3 to 2, from 2 to 1 or from 1 to 3, and only a restart
\* brings it back to 1.
C1_PhaseOrder ==
    [][ /\ lastOp'.op # "restart" =>
              \/ phase' = phase
              \/ phase = 1 /\ phase' = 2
              \/ phase = 2 /\ phase' = 3
        /\ lastOp'.op = "restart" => phase' = 1 ]_vars

\* C2: when the deal ends (the tick that sets phase 3), every seat holds 2
\* cards, the dealer holds 1 and 17 cards have left the shoe.
C2_AfterDeal ==
    (phase = 3 /\ lastOp.op = "tick") =>
        /\ \A i \in Seats : Len(players[i].cards) = 2
        /\ Len(dealer.cards) = 1
        /\ Len(deck) = 52 * DeckCount - 17

C2_Witness == phase = 3 /\ lastOp.op = "tick" /\ dealIndex = Len(DealOrder)

\* C3: in phase 1 a bet submitted for a seat that is not at the betting
\* cursor changes no seat's bet, nor the cursor, nor the phase.
C3_OffCursorBetIgnored ==
    [][ (lastOp'.op = "submitBet" /\ lastOp'.idx # lastOp'.cursor) =>
            /\ \A i \in Seats : players'[i].bet = players[i].bet
            /\ bettingIndex' = bettingIndex
            /\ phase' = phase ]_vars

\* the bet the claim expects for each amount tried
ExpectedBet(amount) ==
    IF amount = Str(<<"2", "5">>) THEN Num(25)
    ELSE IF amount = Str(<<"7">>) THEN Num(7)
    ELSE IF amount = Str(<<"\t", "U+00A0", "9">>) THEN Num(9)
    ELSE IF amount = Str(<<"1", "2", "x">>) THEN Num(12)
    ELSE IF amount = Str(<<"1", "0", "0", "0", "0", "0", "0">>) THEN Num(1000000)
    ELSE IF amount = Str(<<"9", "0", "0", "7", "1", "9", "9", "2", "5", "4",
                           "7", "4", "0", "9", "9", "3">>)
    THEN \* the integer 9007199254740993 = 2^53 + 1
         [neg |-> FALSE, inf |-> FALSE,
          digits |-> <<9, 0, 0, 7, 1, 9, 9, 2, 5, 4, 7, 4, 0, 9, 9, 3>>]
    ELSE Num(5)

\* C4: after a bet by the seat at the cursor, the seat's bet is 5 when the
\* amount has no integer value or one <= 0, and the parsed integer otherwise.
C4_StoredBet ==
    (lastOp.op = "submitBet" /\ InTurn(lastOp)) =>
        players[lastOp.idx].bet = ExpectedBet(lastOp.amount)

\* the bets of this round made by the seat at the cursor
RECURSIVE ValidBets(_)
ValidBets(log) ==
    IF log = << >> THEN 0
    ELSE (IF Head(log).seat = Head(log).cursor THEN 1 ELSE 0) + ValidBets(Tail(log))

\* C5: the phase leaves 1 exactly at the 8th valid bet: with fewer the phase
\* is still 1, and the 8th leaves phase 2, a full shoe of 312 cards, empty
\* hands with score 0, an empty dealer hand and dealIndex 0.
C5_DealAfterEightBets ==
    /\ ValidBets(betLog) < NumSeats => phase = 1
    /\ (lastOp.op = "submitBet" /\ InTurn(lastOp) /\ ValidBets(betLog) = NumSeats) =>
          /\ phase = 2
          /\ Len(deck) = 6 * 52
          /\ \A i \in Seats : players[i].cards = << >> /\ players[i].score = 0
          /\ dealer.cards = << >>
          /\ dealIndex = 0

\* the seat has bet this round
HasBet(i) == \E k \in 1 .. Len(betLog) : betLog[k].seat = i
\* the amount of the seat's latest bet
LatestAmount(i) ==
    LET k == CHOOSE k \in 1 .. Len(betLog) :
                /\ betLog[k].seat = i
                /\ \A m \in 1 .. Len(betLog) : betLog[m].seat = i => m <= k
    IN  betLog[k].amount

\* C6: in phase 2, from its first state on, the bet of every seat that has
\* bet (the 8th included) is the value its own submission stored.
C6_BetsKept ==
    phase = 2 =>
        \A i \in Seats : HasBet(i) => players[i].bet = ExpectedBet(LatestAmount(i))

\* C7: in phase 3 a hit, stand or double for a seat that is not at the cursor
\* changes no hand, score, bet, actions, nor the shoe, nor the cursor.
C7_OffCursorDecisionIgnored ==
    [][ (lastOp'.op \in DecisionOps /\ lastOp'.idx # lastOp'.cursor) =>
            UNCHANGED <<players, deck, currentPlayerIndex>> ]_vars

\* C8: a hit by the seat at the cursor moves the top card of the shoe into
\* that seat's hand and logs "hit"; at a score <= 21 the cursor stays, over
\* 21 "bust" is logged and the cursor moves on by one.
C8_Hit ==
    [][ (lastOp'.op = "hit" /\ InTurn(lastOp')) =>
            LET p == lastOp'.idx IN
            /\ players'[p].cards = Append(players[p].cards, deck[Len(deck)])
            /\ deck' = SubSeq(deck, 1, Len(deck) - 1)
            /\ IF players'[p].score <= 21
               THEN /\ players'[p].actions = Append(players[p].actions, "hit")
                    /\ currentPlayerIndex' = currentPlayerIndex
               ELSE /\ players'[p].actions = players[p].actions \o <<"hit", "bust">>
                    /\ currentPlayerIndex' = currentPlayerIndex + 1 ]_vars

\* the seat at the cursor has hit twice without busting and the cursor is
\* still on it
C8_Witness ==
    /\ lastOp.op = "hit" /\ InTurn(lastOp)
    /\ currentPlayerIndex = lastOp.cursor
    /\ players[lastOp.idx].actions = <<"hit", "hit">>
    /\ players[lastOp.idx].score <= 21

\* the seat at the cursor has hit, busted, and the cursor has moved on
C8_WitnessBust ==
    /\ lastOp.op = "hit" /\ InTurn(lastOp)
    /\ players[lastOp.idx].score > 21
    /\ currentPlayerIndex = lastOp.cursor + 1

\* C9: a stand by the seat at the cursor logs "stand" for that seat, moves
\* the cursor on by one and changes no hand, score, bet, nor the dealer or
\* the shoe.
C9_Stand ==
    [][ (lastOp'.op = "stand" /\ InTurn(lastOp')) =>
            LET p == lastOp'.idx IN
            /\ players'[p].actions = Append(players[p].actions, "stand")
            /\ currentPlayerIndex' = currentPlayerIndex + 1
            /\ \A i \in Seats :
                  /\ players'[i].cards = players[i].cards
                  /\ players'[i].score = players[i].score
                  /\ players'[i].bet = players[i].bet
                  /\ i # p => players'[i].actions = players[i].actions
            /\ UNCHANGED <<dealer, deck>> ]_vars

C9_Witness ==
    /\ lastOp.op = "stand" /\ InTurn(lastOp)
    /\ currentPlayerIndex = lastOp.cursor + 1
    /\ players[lastOp.idx].actions = <<"stand">>

\* C10: a double by the seat at the cursor doubles that seat's bet, moves the
\* top card of the shoe into its hand and moves the cursor on by one, bust or
\* not; no other seat's bet or hand changes.
C10_Double ==
    [][ (lastOp'.op = "double" /\ InTurn(lastOp')) =>
            LET p == lastOp'.idx IN
            /\ players'[p].bet =
                  [players[p].bet EXCEPT !.digits = Doubled(@)]
            /\ players'[p].cards = Append(players[p].cards, deck[Len(deck)])
            /\ currentPlayerIndex' = currentPlayerIndex + 1
            /\ \A i \in Seats \ {p} :
                  /\ players'[i].bet = players[i].bet
                  /\ players'[i].cards = players[i].cards ]_vars

\* a seat with a bet of 25 has doubled without busting and the cursor has
\* moved on
C10_Witness ==
    /\ lastOp.op = "double" /\ InTurn(lastOp)
    /\ players[lastOp.idx].bet = Num(50)
    /\ players[lastOp.idx].score <= 21
    /\ currentPlayerIndex = lastOp.cursor + 1

\* the seat has stood, busted or doubled this round
Has(actions, tag) == \E k \in 1 .. Len(actions) : actions[k] = tag
Finished(i) ==
    \/ Has(players[i].actions, "stand")
    \/ Has(players[i].actions, "bust")
    \/ i \in doubled

\* C11: once a seat has stood, busted or doubled, no later call or tick of
\* the round changes its hand, score, bet or actions; only a restart does.
C11_FinishedSeatFrozen ==
    [][ lastOp'.op # "restart" =>
            \A i \in Seats : Finished(i) => players'[i] = players[i] ]_vars

\* C12: the cursor of phase 3 never exceeds 8; once it is 8, a hit, stand or
\* double for any seat changes nothing of the round, and the phase stays 3
\* until a restart.
C12_CursorStopsAtEight ==
    /\ [](currentPlayerIndex <= 8)
    /\ [][ /\ (lastOp'.op \in DecisionOps /\ currentPlayerIndex >= 8) =>
                  UNCHANGED progVars
           /\ (phase = 3 /\ phase' # 3) => lastOp'.op = "restart" ]_vars

\* no hand holds anything but a card
OnlyCards(cards) == \A k \in 1 .. Len(cards) : cards[k] # Undefined

\* C17: a deal tick, hit or double that has to draw from an empty shoe fails
\* with ShoeEmptyError and leaves every hand and score as they were, and no
\* hand ever holds anything but a card.
C17_EmptyShoeChecked ==
    /\ [](/\ \A i \in Seats : OnlyCards(players[i].cards)
          /\ OnlyCards(dealer.cards))
    /\ [][ ( /\ deck = << >>
             /\ \/ lastOp'.op = "tick" /\ dealIndex < Len(DealOrder)
                \/ lastOp'.op \in {"hit", "double"} /\ lastOp'.idx # -1 ) =>
            /\ thrown' = "ShoeEmptyError"
            /\ \A i \in Seats : /\ players'[i].cards = players[i].cards
                                /\ players'[i].score = players[i].score
            /\ dealer' = dealer ]_vars

\* how often a card occurs in a shoe
Count(d, card) == Cardinality({k \in 1 .. Len(d) : d[k] = card})

\* C14: generateShoe(n) followed by shuffleDeck has 52 n cards and holds
\* every (rank, suit) pair exactly n times.
C14_ShoeIsPermutation ==
    call.fn = "shuffleDeck" =>
        LET n == call.arg[1] IN
        /\ Len(call.result) = 52 * n
        /\ \A r \in 1 .. 13, u \in 1 .. 4 :
              Count(call.result, [rank |-> Ranks[r], suit |-> Suits[u]]) = n

\* a six-deck shoe has been built and the shuffle has moved cards
C14_Witness ==
    /\ call.fn = "shuffleDeck"
    /\ call.arg[1] = 6
    /\ call.result # GenerateShoe(6)

\* the value of a rank with every ace counted 11
RankValue(rank) ==
    IF rank = "A" THEN 11
    ELSE IF rank \in {"J", "Q", "K", "10"} THEN 10
    ELSE CHOOSE v \in 2 .. 9 : Ranks[v] = rank

RECURSIVE RawTotal(_)
RawTotal(cards) ==
    IF cards = << >> THEN 0 ELSE RankValue(Head(cards).rank) + RawTotal(Tail(cards))

AceCount(cards) == Cardinality({k \in 1 .. Len(cards) : cards[k].rank = "A"})

\* the raw total lowered by 10 once per ace for as long as it exceeds 21
Lowered(cards) ==
    LET raw == RawTotal(cards)
        needed == IF raw <= 21 THEN 0 ELSE (raw - 21 + 9) \div 10
        k == IF needed <= AceCount(cards) THEN needed ELSE AceCount(cards)
    IN  raw - 10 * k

\* the largest total <= 21 with each ace counted 1 or 11, and the total with
\* every ace counted 1 when there is none
BestTotal(cards) ==
    LET totals == {RawTotal(cards) - 10 * k : k \in 0 .. AceCount(cards)}
        fitting == {t \in totals : t <= 21}
    IN  IF fitting # {} THEN CHOOSE t \in fitting : \A u \in fitting : u <= t
        ELSE RawTotal(cards) - 10 * AceCount(cards)

\* C15: calculateScore of a hand is the sum with J/Q/K/10 = 10, 2..9 at face
\* value and aces 11, lowered by 10 once per ace while over 21; it is also the
\* best total <= 21 over the aces' two values, or the all-aces-1 total; the
\* empty hand scores 0.
C15_Score ==
    /\ CalculateScore(<< >>) = 0
    /\ call.fn = "calculateScore" =>
          /\ call.result = Lowered(call.arg)
          /\ call.result = BestTotal(call.arg)

\* the hand of the call, as ranks
CallRanks == [k \in 1 .. Len(call.arg) |-> call.arg[k].rank]

\* {A, A, 9} has been scored 21: one ace counted 1, the other 11
C15_Witness ==
    /\ call.fn = "calculateScore"
    /\ CallRanks = <<"A", "A", "9">>
    /\ call.result = 21

\* C16: in phase 3 the deal interval is off and dealIndex has reached the end
\* of dealOrder, and the step that enters phase 3 leaves the cursor at 0.
C16_DealEndsInDecisions ==
    /\ [](phase = 3 => (~isDealing /\ dealIndex >= 17))
    /\ [][ (phase # 3 /\ phase' = 3) => currentPlayerIndex' = 0 ]_vars

\* the deal ran on its interval to the end and the tick after the 17th card
\* has entered phase 3
C16_Witness ==
    /\ phase = 3 /\ lastOp.op = "tick"
    /\ ~isDealing /\ dealIndex = 17 /\ currentPlayerIndex = 0
    /\ \A i \in Seats : players[i].actions = << >>

\* 1 when the condition holds, 0 otherwise
Bit(b) == IF b THEN 1 ELSE 0

\* the card dealt at position j of the deal order, j = 0 .. 16
DealtAt(j) ==
    IF j < 8 THEN players[j].cards[1]
    ELSE IF j = 8 THEN dealer.cards[1]
    ELSE players[j - 9].cards[2]

\* C20: in phase 2 with dealIndex = k, seat i holds [k > i] + [k > 9 + i]
\* cards, the dealer [k > 8], the shoe 312 - k, and the k cards dealt are, in
\* deal order, the last k cards of the shoe as it was built.
C20_DealOrder ==
    phase = 2 =>
        LET k == dealIndex
            size == 52 * 6
        IN  /\ k \in 0 .. 17
            /\ \A i \in Seats :
                  Len(players[i].cards) = Bit(k > i) + Bit(k > 9 + i)
            /\ Len(dealer.cards) = Bit(k > 8)
            /\ Len(deck) = size - k
            /\ \E seed \in Seeds :
                  LET built == FreshShoes[seed] IN
                  /\ deck = SubSeq(built, 1, size - k)
                  /\ \A j \in 0 .. (k - 1) : DealtAt(j) = built[size - j]

\* the 17th card has been dealt and the phase is still 2
C20_Witness == phase = 2 /\ dealIndex = 17 /\ Len(players[7].cards) = 2

\* a seat as a round starts: no card, score 0, bet 0, no action
Cleared(p) ==
    p.cards = << >> /\ p.score = 0 /\ p.bet = Num(0) /\ p.actions = << >>

\* C13: a restart in any state leaves phase 1, the cursors at 0, every seat
\* and the dealer cleared and no interval running; and nothing of the round
\* before comes back: while the phase is 1 no seat holds a card or an action.
C13_RestartClearsAll ==
    /\ [][ lastOp'.op = "restart" =>
              /\ phase' = 1
              /\ bettingIndex' = 0 /\ currentPlayerIndex' = 0
              /\ hitStandIndex' = 0 /\ dealIndex' = 0
              /\ \A i \in Seats : Cleared(players'[i])
              /\ dealer'.cards = << >> /\ dealer'.score = 0
              /\ ~isDealing' /\ ~isHitStandActive' ]_vars
    /\ [](phase = 1 =>
            \A i \in Seats : players[i].cards = << >> /\ players[i].actions = << >>)

\* C18: the deal interval runs only in phase 2, the hit/stand interval only
\* in phase 3, and never both.
C18_OneTimerPerPhase ==
    /\ ~(dealClosure.live /\ hitStandClosure.live)
    /\ (isDealing \/ dealClosure.live) => phase = 2
    /\ (isHitStandActive \/ hitStandClosure.live) => phase = 3

\* the ticks of the hit/stand interval
HitStandTicks == {"hit", "stand", "autoStop"}

\* C19: a deal tick run while isDealing is off or the phase is not 2, and a
\* hit/stand tick run while isHitStandActive is off or the phase is not 3,
\* change nothing of the round.
C19_StaleTickIgnored ==
    [][ ( \/ lastOp'.op = "tick" /\ (~isDealing \/ phase # 2)
          \/ lastOp'.op \in HitStandTicks /\ (~isHitStandActive \/ phase # 3) ) =>
            UNCHANGED <<phase, players, dealer, deck, dealIndex, hitStandIndex>> ]_vars

\* C21: in every reachable state each seat's stored score is the score of
\* that seat's hand, and the dealer's stored score is the score of the
\* dealer's hand.
C21_ScoresDerived ==
    /\ \A i \in DOMAIN players : players[i].score = CalculateScore(players[i].cards)
    /\ dealer.score = CalculateScore(dealer.cards)

\* a seat holds an ace counted as 1 after a hit: its score is not the sum of
\* the values the cards had when they arrived
C21_Witness ==
    /\ phase = 3
    /\ lastOp.op \in {"hit", "double"}
    /\ \E i \in DOMAIN players :
          /\ Len(players[i].cards) >= 3
          /\ \E k \in 1..Len(players[i].cards) : players[i].cards[k].rank = "A"
          /\ players[i].score < RawTotal(players[i].cards)
    /\ Len(dealer.cards) = 1

\* how often a card occurs in the hands of the seats 0 .. i
RECURSIVE HandsCount(_, _)
HandsCount(card, i) ==
    IF i < 0 THEN 0 ELSE Count(players[i].cards, card) + HandsCount(card, i - 1)

\* how often a card occurs in the hands, the dealer's hand and the shoe
Copies(card) ==
    HandsCount(card, NumSeats - 1) + Count(dealer.cards, card) + Count(deck, card)

\* the step draws a card: a deal tick before the end of the deal order, or
\* a hit or double for a seat that went through
Draws ==
    \/ lastOp'.op = "tick" /\ dealIndex < Len(DealOrder)
    \/ lastOp'.op \in {"hit", "double"} /\ lastOp'.idx # -1 /\ thrown' = "none"

\* C22: during a round the hands, the dealer's hand and the shoe together
\* are the shoe as built (every card of a deck as often as there are decks),
\* and every deal tick, hit, double or automated hit, busting or not,
\* shortens the shoe by exactly one card.
C22_NoCardTwice ==
    /\ [](phase \in {2, 3} =>
             \E n \in {1, DeckCount} :
                \A k \in 1 .. Len(GenerateDeck) : Copies(GenerateDeck[k]) = n)
    /\ [][ Draws => Len(deck') = Len(deck) - 1 ]_vars

\* C23: every seat's score is an integer in [0,30] in every reachable state,
\* also after a hit or double by a seat whose score is already 21.
C23_ScoreRange ==
    \A i \in Seats : players[i].score \in 0 .. 30

\* C24: a round in phase 2 eventually reaches phase 3, whatever the deal
\* index and whether the interval runs or was stopped, when dealing is
\* started again after every stop and the ticks keep firing; stop and start
\* leave the deal index, the hands and the shoe alone, and every dealing
\* tick moves the index on by exactly one.
C24_DealingCompletes ==
    /\ (phase = 2) ~> (phase = 3)
    /\ [][ /\ lastOp'.op \in {"stopDealing", "startDealing"} =>
                  UNCHANGED <<dealIndex, players, dealer, deck, phase>>
           /\ (lastOp'.op = "tick" /\ dealIndex < Len(DealOrder)) =>
                  dealIndex' = dealIndex + 1 ]_vars

\* what stays of C24 without the states in which every card is dealt:
\* stopped with cards still to deal, the round gets to phase 3
C24_BeforeLastCard ==
    (phase = 2 /\ dealIndex < Len(DealOrder)) ~>
        (phase = 3 \/ dealIndex = Len(DealOrder))

\* the automated tick applies the manual rule of a hit to seat p: the top
\* card of the shoe joins the hand, "hit" is logged, and the cursor stays
\* unless the seat is bust
AutoHitAsManual(p) ==
    /\ players'[p].cards = Append(players[p].cards, deck[Len(deck)])
    /\ players'[p].actions = Append(players[p].actions, "hit")
    /\ hitStandIndex' = IF players'[p].score > BustLimit THEN p + 1 ELSE p

\* the automated tick applies the manual rule of a stand to seat p
AutoStandAsManual(p) ==
    /\ players'[p].actions = Append(players[p].actions, "stand")
    /\ players'[p].cards = players[p].cards
    /\ players'[p].score = players[p].score
    /\ hitStandIndex' = p + 1
    /\ UNCHANGED deck

\* C25 (hits accumulate): an automated hit that does not bust the seat at
\* the cursor leaves its hand one card longer than before the tick.
C25_HitsAccumulate ==
    [][ (lastOp'.op = "hit" /\ players'[hitStandIndex].score <= BustLimit) =>
            Len(players'[hitStandIndex].cards) =
                Len(players[hitStandIndex].cards) + 1 ]_vars

\* C25 (termination): once started, the automated mode gets past the last
\* seat and its flag goes off.
C25_CursorPassesLastSeat ==
    isHitStandActive ~> (~isHitStandActive /\ hitStandIndex = NumSeats)

\* C25: once the automated mode is started and its ticks keep firing, each
\* tick applies one hit or one stand, never a double, to the seat at the
\* cursor by the rules of the manual hit and stand, so that successive hits
\* that do not bust add up in the seat's hand; the cursor eventually gets to
\* 8, the flag goes off and only a new start sets it again.
C25_AutoTerminates ==
    /\ isHitStandActive ~> (~isHitStandActive /\ hitStandIndex = NumSeats)
    /\ [][ /\ lastOp'.op \in {"hit", "stand"} =>
                  /\ hitStandIndex \in Seats
                  /\ \A i \in Seats \ {hitStandIndex} : players'[i] = players[i]
                  /\ players'[hitStandIndex].bet = players[hitStandIndex].bet
                  /\ lastOp'.op = "hit" => AutoHitAsManual(hitStandIndex)
                  /\ lastOp'.op = "stand" => AutoStandAsManual(hitStandIndex)
           /\ (~isHitStandActive /\ isHitStandActive') =>
                  lastOp'.op = "startHitStand" ]_vars

\* C26: a hit, a stand, a double and an automated decision tick leave the
\* dealer's hand and score as they were; the dealer never holds more than
\* one card and holds exactly one all through phase 3.
C26_DealerDoesNotAct ==
    /\ [](/\ Len(dealer.cards) <= 1
          /\ phase = 3 => Len(dealer.cards) = 1)
    /\ [][ lastOp'.op \in DecisionOps => dealer' = dealer ]_vars

\* in phase 3 seats have hit, stood and doubled and the dealer holds the one
\* card of the deal
C26_Witness ==
    /\ phase = 3
    /\ lastOp.op \in DecisionOps
    /\ \E i \in Seats : Has(players[i].actions, "stand")
    /\ \E i \in Seats \ doubled : Has(players[i].actions, "hit")
    /\ doubled # {}
    /\ Len(dealer.cards) = 1
    /\ dealer.score = CalculateScore(dealer.cards)

====
